---- MODULE Spec2Model ----
(***************************************************************************)
(* Model of the logging helper (log_setup.setup_logging) and of the        *)
(* demonstration handlers (function_app) of the Azure Functions logging    *)
(* sample.                                                                 *)
(*                                                                         *)
(* Text is modelled in two ways.  Log messages and rendered records are    *)
(* TLA+ strings, joined with \o.  A format template is the sequence of     *)
(* its pieces (a %(field)s placeholder or a literal), and a query-string   *)
(* parameter is the sequence of its characters, so that formatting,        *)
(* lower-casing and integer parsing are computed piece by piece.           *)
(* An optional Python value (None or a value) is a sequence of length 0    *)
(* or 1.                                                                   *)
(***************************************************************************)
EXTENDS Integers, Sequences, FiniteSets, TLC

VARIABLES
  handlers,   \* root.handlers: sequence of [kind, formatter]
  level,      \* Logger.level of every logger of the model (NOTSET = inherit)
  emitted,    \* logging calls made by the last operation, in order
  sink,       \* records the root destinations received in the last operation
  response,   \* what the last operation returned (or the exception it raised)
  op,         \* the last operation and its arguments
  latest,     \* logger name and template of the latest setup_logging call, if any
  issued,     \* per logger name: the template of the call that last returned it
  pre,        \* root's handler count and the levels when the last operation began
  repeat,     \* the last two operations were setup_logging with equal arguments
  th,         \* per thread: position and locals of a setup_logging call in progress
  raceArgs    \* the arguments every racing thread passes

vars ==
  <<handlers, level, emitted, sink, response, op, latest, issued, pre, repeat, th,
    raceArgs>>

----------------------------------------------------------------------------
(* Severity levels (the numeric levels of Python's logging module).        *)

NOTSET == 0
TRACE == 5
DEBUG == 10
INFO == 20
WARNING == 30
ERROR == 40

LevelName(l) ==
  CASE l = DEBUG -> "DEBUG"
    [] l = INFO -> "INFO"
    [] l = WARNING -> "WARNING"
    [] l = ERROR -> "ERROR"
    [] l = NOTSET -> "NOTSET"
    [] OTHER -> "Level " \o ToString(l)

----------------------------------------------------------------------------
(* Bounds of the model.                                                    *)

MaxHandlers == 2   \* destinations the host attached to root before startup
MaxSuppress == 1   \* length of an explicit suppress_libs list
MaxThreads == 2    \* threads racing through setup_logging
MaxCount == 3      \* small request counts range over -MaxCount..MaxCount

----------------------------------------------------------------------------
(* Loggers.                                                                *)

DEFAULT_SUPPRESS ==
  << "azure.core.pipeline.policies.http_logging_policy",
     "azure.core.pipeline",
     "azure.identity",
     "azure.storage",
     "urllib3",
     "msrest" >>

Range(s) == {s[i] : i \in DOMAIN s}

AppNames == {"app", "urllib3"}

Loggers == {"root"} \cup AppNames \cup Range(DEFAULT_SUPPRESS)

\* The logger hierarchy follows the dots of the names.
Parent(n) ==
  IF n = "azure.core.pipeline.policies.http_logging_policy"
  THEN "azure.core.pipeline"
  ELSE "root"

RECURSIVE getEffectiveLevel(_, _)
getEffectiveLevel(lv, n) ==
  IF lv[n] # NOTSET THEN lv[n]
  ELSE IF n = "root" THEN NOTSET
  ELSE getEffectiveLevel(lv, Parent(n))

isEnabledFor(lv, n, levelno) == levelno >= getEffectiveLevel(lv, n)

----------------------------------------------------------------------------
(* Formatters and destinations.                                            *)

\* Mutant of DEFAULT_FMT: a template that leaves the logger name out.
DefaultFmtWithoutName == << "%(message)s" >>

DEFAULT_FMT == << "[", "%(name)s", "] ", "%(message)s" >>

\* logging.BASIC_FORMAT, installed by logging.basicConfig().
BASIC_FORMAT == << "%(levelname)s", ":", "%(name)s", ":", "%(message)s" >>

\* What a destination without a formatter uses.
PlainFormat == << "%(message)s" >>

\* A caller-supplied template.
CustomFmt == << "%(levelname)s", " ", "%(message)s" >>

Piece(p, rec) ==
  CASE p = "%(name)s" -> rec.logger
    [] p = "%(message)s" -> rec.msg
    [] p = "%(levelname)s" -> LevelName(rec.levelno)
    [] OTHER -> p

RECURSIVE Format(_, _)
Format(fmt, rec) ==
  IF fmt = <<>> THEN "" ELSE Piece(Head(fmt), rec) \o Format(Tail(fmt), rec)

Formatter(fmt) == [fmt |-> fmt]

\* Handler.format: the handler's formatter, or the default one.
HandlerFormat(h, rec) ==
  IF h.formatter = <<>> THEN Format(PlainFormat, rec)
  ELSE Format(h.formatter[Len(h.formatter)].fmt, rec)

\* Mutant of setFormatter: a handler that has a formatter keeps it.
setFormatterIfNone(h, f) ==
  IF h.formatter = <<>> THEN [h EXCEPT !.formatter = <<f>>] ELSE h

setFormatter(h, f) == [h EXCEPT !.formatter = <<f>>]

StreamHandler == [kind |-> "stream", formatter |-> <<>>]

HostHandler == [kind |-> "host", formatter |-> <<>>]

Record(n, levelno, msg) == [logger |-> n, levelno |-> levelno, msg |-> msg]

\* Logger.callHandlers for a record that passed the level check: every
\* logger of the model propagates to root, which holds all the handlers.
callHandlers(hs, rec) ==
  [i \in 1..Len(hs) |->
     [handler |-> i, text |-> HandlerFormat(hs[i], rec), logger |-> rec.logger,
      levelno |-> rec.levelno, msg |-> rec.msg]]

\* Logger.log: what the destinations receive for one logging call.
LoggerLog(hs, lv, rec) ==
  IF isEnabledFor(lv, rec.logger, rec.levelno) THEN callHandlers(hs, rec) ELSE <<>>

\* The destinations' view of a run of logging calls made against one
\* configuration: each enabled record reaches every handler, in call order.
LogAll(hs, lv, recs) ==
  LET enabled == SelectSeq(recs, LAMBDA r : isEnabledFor(lv, r.logger, r.levelno))
      n == Len(hs)
  IN [k \in 1..(Len(enabled) * n) |->
        LoggerLog(hs, lv, enabled[((k - 1) \div n) + 1])[((k - 1) % n) + 1]]

\* logging.basicConfig(), which the module-level logging functions call
\* first when root has no handler.
basicConfig(hs) ==
  IF Len(hs) = 0 THEN <<setFormatter(StreamHandler, Formatter(BASIC_FORMAT))>> ELSE hs

----------------------------------------------------------------------------
(* log_setup.setup_logging                                                 *)

SeqsUpTo(S, n) == UNION {[1..k -> S] : k \in 0..n}

MinLevels == {NOTSET, DEBUG, WARNING}

FmtInputs == {<<>>, <<<<>>>>, <<CustomFmt>>}   \* None, "", a template

\* None, or a list of names
SuppressInputs == {<<>>} \cup {<<l>> : l \in SeqsUpTo({"app"}, MaxSuppress)}

SetupArgs ==
  [logger_name : AppNames, level : MinLevels,
   suppress_libs : SuppressInputs, fmt : FmtInputs]

\* fmt = fmt or DEFAULT_FMT
ResolveFmt(fmt) == IF fmt = <<>> \/ fmt[1] = <<>> THEN DEFAULT_FMT ELSE fmt[1]

setLevel(lv, n, l) == [lv EXCEPT ![n] = l]

\* Mutant of ApplyFormatter: only the first handler gets the formatter.
ApplyFormatterFirstOnly(hs, f) ==
  [i \in DOMAIN hs |-> IF i = 1 THEN setFormatter(hs[i], f) ELSE hs[i]]

\* for handler in root.handlers: handler.setFormatter(formatter)
ApplyFormatter(hs, f) == [i \in DOMAIN hs |-> setFormatter(hs[i], f)]

\* Mutant of AddDefaultHandler: the stream handler is added unconditionally.
AddDefaultHandlerAlways(hs, f) == Append(hs, setFormatter(StreamHandler, f))

\* if not root.handlers: add a StreamHandler carrying the formatter
AddDefaultHandler(hs, f) ==
  IF Len(hs) = 0 THEN Append(hs, setFormatter(StreamHandler, f)) ELSE hs

\* Mutant of Libs: None suppresses nothing.
LibsNoneMeansNothing(suppress_libs) ==
  IF suppress_libs # <<>> THEN suppress_libs[1] ELSE <<>>

\* libs = suppress_libs if suppress_libs is not None else DEFAULT_SUPPRESS
Libs(suppress_libs) ==
  IF suppress_libs # <<>> THEN suppress_libs[1] ELSE DEFAULT_SUPPRESS

RECURSIVE SuppressLibs(_, _)
SuppressLibs(lv, libs) ==
  IF libs = <<>> THEN lv
  ELSE SuppressLibs(setLevel(lv, Head(libs), WARNING), Tail(libs))

SummaryMsg(n, libs) ==
  "Logging configured: logger='" \o n \o "', suppressed "
    \o ToString(Len(libs)) \o " libraries"

\* Mutant of SummaryRecord: the summary is logged with logging.info (root).
SummaryRecordViaRoot(n, libs) == Record("root", INFO, SummaryMsg(n, libs))

\* logger.info("Logging configured: ...", logger_name, len(libs))
SummaryRecord(n, libs) == Record(n, INFO, SummaryMsg(n, libs))

\* The whole call, from a configuration c = [handlers, level].
setup_logging(c, a) ==
  LET formatter == Formatter(ResolveFmt(a.fmt))
      lv1 == setLevel(c.level, a.logger_name, a.level)
      hs1 == ApplyFormatter(c.handlers, formatter)
      hs2 == AddDefaultHandler(hs1, formatter)
      libs == Libs(a.suppress_libs)
      lv2 == SuppressLibs(lv1, libs)
      rec == SummaryRecord(a.logger_name, libs)
  IN [handlers |-> hs2, level |-> lv2, emitted |-> <<rec>>,
      sink |-> LoggerLog(hs2, lv2, rec)]

Config == [handlers |-> handlers, level |-> level]

Before == [nhandlers |-> Len(handlers), level |-> level]

NoThreads == [t \in 1..MaxThreads |-> [pc |-> "idle", i |-> 0]]

NoResponse == [status |-> 0, raised |-> "", body |-> <<>>]

SetupLogging ==
  \E a \in SetupArgs :
    LET r == setup_logging(Config, a) IN
      /\ handlers' = r.handlers
      /\ level' = r.level
      /\ emitted' = r.emitted
      /\ sink' = r.sink
      /\ response' = [status |-> 0, raised |-> "", body |-> [logger |-> a.logger_name]]
      /\ op' = [name |-> "setup_logging", args |-> <<a>>]
      /\ latest' = <<[logger_name |-> a.logger_name, fmt |-> ResolveFmt(a.fmt)]>>
      /\ issued' = [issued EXCEPT ![a.logger_name] = <<ResolveFmt(a.fmt)>>]
      /\ pre' = Before
      /\ repeat' = (op.name = "setup_logging" /\ op.args = <<a>>)
      /\ UNCHANGED <<th, raceArgs>>

\* A record logged through a named logger (the logger setup_logging
\* returned, or a library's own logger) once logging has been set up.
LoggerCall ==
  \E n \in AppNames :
    LET rec == Record(n, INFO, "Hello") IN
      /\ latest # <<>>
      /\ emitted' = <<rec>>
      /\ sink' = LoggerLog(handlers, level, rec)
      /\ response' = NoResponse
      /\ op' = [name |-> "logger_call", args |-> <<>>]
      /\ pre' = Before
      /\ repeat' = FALSE
      /\ UNCHANGED <<handlers, level, latest, issued, th, raceArgs>>

----------------------------------------------------------------------------
(* Request parameters: text, as the sequence of its characters.            *)

UpperChars == <<"A", "B", "C", "D", "E", "F", "G", "I", "N", "O", "R", "T", "U", "W">>

LowerChars == <<"a", "b", "c", "d", "e", "f", "g", "i", "n", "o", "r", "t", "u", "w">>

\* str.lower(), character by character
LowerChar(c) ==
  IF \E i \in DOMAIN UpperChars : UpperChars[i] = c
  THEN LowerChars[CHOOSE i \in DOMAIN UpperChars : UpperChars[i] = c]
  ELSE c

lower(str) == [i \in DOMAIN str |-> LowerChar(str[i])]

DigitChars == <<"0", "1", "2", "3", "4", "5", "6", "7", "8", "9">>

IsDigit(c) == \E i \in DOMAIN DigitChars : DigitChars[i] = c

DigitVal(c) == (CHOOSE i \in DOMAIN DigitChars : DigitChars[i] = c) - 1

RECURSIVE DigitsVal(_, _)
DigitsVal(str, acc) ==
  IF str = <<>> THEN acc
  ELSE DigitsVal(Tail(str), (acc * Len(DigitChars)) + DigitVal(Head(str)))

\* int(str) for text without blanks or underscores: an optional sign and
\* at least one digit, anything else raises ValueError (ok = FALSE).
PyInt(str) ==
  LET signed == str # <<>> /\ Head(str) \in {"-", "+"}
      digits == IF signed THEN Tail(str) ELSE str
  IN IF digits # <<>> /\ \A i \in DOMAIN digits : IsDigit(digits[i])
     THEN [ok |-> TRUE,
           val |-> IF signed /\ Head(str) = "-"
                   THEN 0 - DigitsVal(digits, 0) ELSE DigitsVal(digits, 0)]
     ELSE [ok |-> FALSE, val |-> 0]

\* The decimal text of an integer (what a client puts in the query string).
RECURSIVE NatStr(_)
NatStr(n) ==
  IF n < Len(DigitChars) THEN <<DigitChars[n + 1]>>
  ELSE NatStr(n \div Len(DigitChars)) \o <<DigitChars[(n % Len(DigitChars)) + 1]>>

Str(n) == IF n < 0 THEN <<"-">> \o NatStr(0 - n) ELSE NatStr(n)

\* req.params.get(key, default)
ParamGet(params, key, default) ==
  IF params[key] = <<>> THEN default ELSE params[key][1]

\* range(n) as the sequence 0, 1, ..., n-1 (empty when n <= 0)
PyRange(n) == [k \in 1..n |-> k - 1]

Min(a, b) == IF a < b THEN a ELSE b

Max(a, b) == IF a > b THEN a ELSE b

Returned(status, body) == [status |-> status, raised |-> "", body |-> body]

Raised(exc) == [status |-> 0, raised |-> exc, body |-> <<>>]

\* The module-level functions logging.debug/info/... log through root,
\* after basicConfig() when root has no handler.
RootRecord(levelno, msg) == Record("root", levelno, msg)

ModuleLogHandlers(hs, recs) == IF recs = <<>> THEN hs ELSE basicConfig(hs)

----------------------------------------------------------------------------
(* function_app.http_get                                                   *)

TraceStr == <<"t", "r", "a", "c", "e">>
DebugStr == <<"d", "e", "b", "u", "g">>
InfoStr == <<"i", "n", "f", "o">>
WarningStr == <<"w", "a", "r", "n", "i", "n", "g">>
ErrorStr == <<"e", "r", "r", "o", "r">>

\* Mutant of RequestedLevel: the value is compared as given.
RequestedLevelCaseSensitive(params) == ParamGet(params, "loglevel", InfoStr)

\* log_level = req.params.get("loglevel", "info").lower()
RequestedLevel(params) == lower(ParamGet(params, "loglevel", InfoStr))

\* The record of the if/elif chain on log_level.
RequestedRecord(log_level, name) ==
  CASE log_level = TraceStr ->
         RootRecord(TRACE, "TRACE: Very detailed trace log for " \o name)
    [] log_level = DebugStr ->
         RootRecord(DEBUG, "DEBUG: Detailed debug information for " \o name)
    [] log_level = WarningStr ->
         RootRecord(WARNING, "WARNING: Warning level log for " \o name)
    [] log_level = ErrorStr ->
         RootRecord(ERROR, "ERROR: Error level log for " \o name)
    [] OTHER ->
         RootRecord(INFO, "INFO: Standard info log for " \o name)

http_get(params) ==
  LET name == ParamGet(params, "name", "World")
      log_level == RequestedLevel(params)
  IN [emitted |->
        << RootRecord(DEBUG, "DEBUG: Processing GET request with name=" \o name),
           RootRecord(INFO, "INFO: HTTP GET triggered - Greeting " \o name),
           RootRecord(WARNING, "WARNING: Example warning message for " \o name),
           RequestedRecord(log_level, name) >>,
      response |->
        Returned(200, "Hello, " \o name \o "! Check Application Insights for logs.")]

LogLevelTexts ==
  { TraceStr, DebugStr, InfoStr, WarningStr, ErrorStr,
    <<"T", "R", "A", "C", "E">>, <<"D", "e", "b", "u", "g">>, <<"I", "N", "F", "O">>,
    <<"W", "a", "r", "n", "i", "n", "g">>, <<"E", "R", "R", "O", "R">>,
    <<"c", "r", "i", "t", "i", "c", "a", "l">>, <<"w", "a", "r", "n">>, <<>> }

GetParams ==
  [name : {<<>>, <<"X">>}, loglevel : {<<>>} \cup {<<t>> : t \in LogLevelTexts}]

\* A handler that only logs: its records go through root against the
\* current configuration.
Handle(name, args, r) ==
  /\ handlers' = ModuleLogHandlers(handlers, r.emitted)
  /\ emitted' = r.emitted
  /\ sink' = LogAll(handlers', level, r.emitted)
  /\ response' = r.response
  /\ op' = [name |-> name, args |-> <<args>>]
  /\ pre' = Before
  /\ repeat' = FALSE
  /\ UNCHANGED <<level, latest, issued, th, raceArgs>>

HttpGet ==
  \E p \in GetParams :
    /\ Handle("http_get", p, http_get(p))

\* The request without parameters, as the startup sequence sees it.
HttpGetDefault ==
  \E p \in {q \in GetParams : q.name = <<>> /\ q.loglevel = <<>>} :
    /\ Handle("http_get", p, http_get(p))

----------------------------------------------------------------------------
(* function_app.sampling_test                                              *)

SamplingCap == 500

\* f"{n:04d}"
Pad4(n) ==
  LET digits == ToString(IF n < 0 THEN 0 - n ELSE n)
      width == IF n < 0 THEN 3 ELSE 4
      zeros == [k \in 0..4 |-> CASE k = 0 -> "" [] k = 1 -> "0" [] k = 2 -> "00"
                                 [] k = 3 -> "000" [] OTHER -> "0000"]
      numlen == Len(NatStr(IF n < 0 THEN 0 - n ELSE n))
  IN (IF n < 0 THEN "-" ELSE "") \o zeros[Max(width - numlen, 0)] \o digits

\* logging.info(f"Sampling test entry {i+1:04d}/{count:04d} - ID: ...");
\* the random identifier is left out of the text.
SamplingEntry(i, count) ==
  RootRecord(INFO, "Sampling test entry " \o Pad4(i + 1) \o "/" \o Pad4(count) \o " - ID")

\* count = min(int(req.params.get("count", "50")), 500)
SamplingCount(parsed) == Min(parsed, SamplingCap)

sampling_test(params) ==
  LET parsed == PyInt(ParamGet(params, "count", Str(50)))
      count == SamplingCount(parsed.val)
      entries == [k \in DOMAIN PyRange(count) |-> SamplingEntry(PyRange(count)[k], count)]
  IN IF ~parsed.ok THEN [emitted |-> <<>>, response |-> Raised("ValueError")]
     ELSE [emitted |->
             << RootRecord(INFO, "Starting sampling test - generating "
                                   \o ToString(count) \o " log entries") >>
             \o entries \o
             << RootRecord(INFO, "Sampling test completed - "
                                   \o ToString(count) \o " entries logged") >>,
           response |->
             Returned(200, [message |-> "Sampling test completed",
                            entriesGenerated |-> count])]

BadNumbers == { <<"a", "b", "c">>, <<"1", ".", "5">>, <<>>, <<"-">> }

SmallCounts == (0 - MaxCount)..MaxCount

NumberTexts(S) == {<<>>} \cup {<<Str(n)>> : n \in S} \cup {<<b>> : b \in BadNumbers}

SamplingParams ==
  [count : NumberTexts(SmallCounts \cup
                       {SamplingCap - 1, SamplingCap, SamplingCap + 1, 2 * SamplingCap})]

SamplingTest ==
  \E p \in SamplingParams :
    /\ Handle("sampling_test", p, sampling_test(p))

----------------------------------------------------------------------------
(* function_app.performance_test                                           *)

IterationCap == 10000

\* the progress records of: for i in range(iterations):
\*                             if (i + 1) % log_frequency == 0: logging.info(...)
ProgressRecords(iterations, log_frequency) ==
  LET hits == SelectSeq(PyRange(iterations), LAMBDA i : (i + 1) % log_frequency = 0)
  IN [k \in DOMAIN hits |->
        RootRecord(INFO, "Performance test progress: " \o ToString(hits[k] + 1)
                           \o "/" \o ToString(iterations))]

\* "logsGenerated": iterations // log_frequency
LogsGenerated(iterations, log_frequency) == iterations \div log_frequency

\* The elapsed time is left out of the texts and of the body; the average
\* (elapsed_time / iterations) is computed while the body is built.
performance_test(params) ==
  LET it == PyInt(ParamGet(params, "iterations", Str(100)))
      fr == PyInt(ParamGet(params, "logfrequency", Str(10)))
      iterations == Min(it.val, IterationCap)
      log_frequency == Max(fr.val, 1)
      logged ==
        << RootRecord(INFO, "Starting performance test with "
                              \o ToString(iterations) \o " iterations") >>
        \o ProgressRecords(iterations, log_frequency) \o
        << RootRecord(INFO, "Performance test completed") >>
  IN IF ~it.ok \/ ~fr.ok THEN [emitted |-> <<>>, response |-> Raised("ValueError")]
     ELSE IF iterations = 0
       THEN [emitted |-> logged, response |-> Raised("ZeroDivisionError")]
     ELSE [emitted |-> logged,
           response |->
             Returned(200, [iterations |-> iterations,
                            logFrequency |-> log_frequency,
                            logsGenerated |-> LogsGenerated(iterations, log_frequency)])]

\* Small runs with every small frequency, and runs around the cap with
\* frequencies that keep the number of progress records small.
PerformanceParams ==
  [iterations : NumberTexts(SmallCounts), logfrequency : NumberTexts(SmallCounts)]
  \cup
  [iterations : {<<Str(n)>> : n \in {IterationCap - 1, IterationCap, IterationCap + 1}},
   logfrequency : {<<Str(n)>> : n \in {IterationCap \div 4, IterationCap}}]

PerformanceTest ==
  \E p \in PerformanceParams :
    /\ Handle("performance_test", p, performance_test(p))

----------------------------------------------------------------------------
(* function_app.http_post                                                  *)

LogCap == 100

SimulatedErrorText == "Simulated error for testing error tracking"

\* A JSON value of the body is [int, val]: an integer, or something else
\* (a string, null, a float) when int is FALSE.
IntValue(n) == [int |-> TRUE, val |-> n]

NotAnInt == [int |-> FALSE, val |-> 0]

\* req_body.get(key, default)
BodyGet(body, key, default) == IF body[key] = <<>> THEN default ELSE body[key][1]

\* logging.exception(msg): an error-level record through root
ExceptionRecord(msg) == RootRecord(ERROR, msg)

\* Mutant of ExceptResponse: every exception is answered as unexpected.
ExceptResponseAlwaysGeneric(exc, text) ==
  [emitted |-> <<ExceptionRecord("Unexpected error: " \o text)>>,
   response |-> Returned(500, [error |-> "Internal server error"])]

\* except ValueError as e: ... 400;  except Exception as e: ... 500
ExceptResponse(exc, text) ==
  IF exc = "ValueError"
  THEN [emitted |-> <<ExceptionRecord("ValueError occurred: " \o text)>>,
        response |-> Returned(400, [error |-> text])]
  ELSE [emitted |-> <<ExceptionRecord("Unexpected error: " \o text)>>,
        response |-> Returned(500, [error |-> "Internal server error"])]

\* for i in range(min(generate_logs, 100)): logging.info(f"Log entry ...")
LogEntries(generate_logs, name) ==
  LET r == PyRange(Min(generate_logs, LogCap))
  IN [k \in DOMAIN r |->
        RootRecord(INFO, "Log entry " \o ToString(r[k] + 1) \o "/"
                           \o ToString(generate_logs) \o " for " \o name)]

\* "logsGenerated": generate_logs
PostLogsGenerated(generate_logs) == generate_logs

http_post(body) ==
  LET name == BodyGet(body, "name", "Anonymous")
      generate_logs == BodyGet(body, "generateLogs", IntValue(1))
      simulate_error == BodyGet(body, "simulateError", FALSE)
      processing == <<RootRecord(INFO, "Processing POST request for " \o name)>>
      entries == LogEntries(generate_logs.val, name)
      Caught(logged, exc, text) ==
        LET x == ExceptResponse(exc, text)
        IN [emitted |-> logged \o x.emitted, response |-> x.response]
  IN IF body.kind = "invalid"
     THEN Caught(<<>>, "ValueError", "HTTP request does not contain valid JSON data")
     ELSE IF body.kind = "array"
     THEN Caught(<<>>, "AttributeError", "'list' object has no attribute 'get'")
     ELSE IF ~generate_logs.int
     THEN Caught(processing, "TypeError", "'<' not supported between instances")
     ELSE IF simulate_error
     THEN Caught(processing \o entries
                   \o <<RootRecord(ERROR, "Simulated error for testing - User: " \o name)>>,
                 "ValueError", SimulatedErrorText)
     ELSE [emitted |-> processing \o entries,
           response |->
             Returned(200, [message |-> "Hello, " \o name \o "!",
                            logsGenerated |-> PostLogsGenerated(generate_logs.val)])]

GenerateLogsInputs ==
  {<<>>, <<NotAnInt>>}
  \cup {<<IntValue(n)>> : n \in SmallCounts \cup {LogCap - 1, LogCap, LogCap + 1}}

\* Bodies: not JSON, a JSON array, or a JSON object with optional fields.
PostBodies ==
  [kind : {"invalid", "array"}, name : {<<>>}, generateLogs : {<<>>},
   simulateError : {<<>>}]
  \cup
  [kind : {"object"}, name : {<<>>, <<"X">>}, generateLogs : GenerateLogsInputs,
   simulateError : {<<>>, <<TRUE>>, <<FALSE>>}]

HttpPost ==
  \E b \in PostBodies :
    /\ Handle("http_post", b, http_post(b))

\* At startup only root has a level of its own: WARNING by default, INFO
\* when the host has lowered it.
InitLevels ==
  { [n \in Loggers |-> IF n = "root" THEN r ELSE NOTSET] : r \in {INFO, WARNING} }

Init ==
  /\ handlers \in {[i \in 1..k |-> HostHandler] : k \in 0..MaxHandlers}
  /\ level \in InitLevels
  /\ emitted = <<>>
  /\ sink = <<>>
  /\ response = NoResponse
  /\ op = [name |-> "start", args |-> <<>>]
  /\ latest = <<>>
  /\ issued = [n \in AppNames |-> <<>>]
  /\ pre = Before
  /\ repeat = FALSE
  /\ th = NoThreads
  /\ raceArgs = <<>>

Next == SetupLogging \/ LoggerCall \/ HttpGetDefault

Spec == Init /\ [][Next]_vars

\* The function app serving requests: root holds the host's handler, or
\* none when run locally; function_app never calls setup_logging.
InitApp == Init /\ Len(handlers) <= 1

NextApp == HttpGet \/ HttpPost \/ SamplingTest \/ PerformanceTest

SpecApp == InitApp /\ [][NextApp]_vars

----------------------------------------------------------------------------
(* setup_logging called by several threads at once with the same          *)
(* arguments.  The interpreter may switch threads between any two          *)
(* statements, so each statement that reads or writes shared logging       *)
(* state is a step of its own; i is the thread's position in the loop it   *)
(* is running.                                                             *)

Threads == 1..MaxThreads

RaceFormatter == Formatter(ResolveFmt(raceArgs[1].fmt))

Goto(t, pc, i) == th' = [th EXCEPT ![t] = [pc |-> pc, i |-> i]]

\* logger = logging.getLogger(logger_name); logger.setLevel(level)
RaceSetLevel(t) ==
  /\ th[t].pc = "idle"
  /\ level' = setLevel(level, raceArgs[1].logger_name, raceArgs[1].level)
  /\ Goto(t, "format", 1)
  /\ UNCHANGED <<handlers, emitted, sink, response, op, latest, issued, pre, repeat, raceArgs>>

\* for handler in root.handlers: handler.setFormatter(formatter)
RaceFormat(t) ==
  /\ th[t].pc = "format"
  /\ IF th[t].i <= Len(handlers)
     THEN /\ handlers' =
               [handlers EXCEPT ![th[t].i] = setFormatter(handlers[th[t].i], RaceFormatter)]
          /\ Goto(t, "format", th[t].i + 1)
     ELSE /\ Goto(t, "check", 0)
          /\ UNCHANGED handlers
  /\ UNCHANGED <<level, emitted, sink, response, op, latest, issued, pre, repeat, raceArgs>>

\* if not root.handlers:
RaceCheck(t) ==
  /\ th[t].pc = "check"
  /\ Goto(t, IF Len(handlers) = 0 THEN "add" ELSE "suppress", 1)
  /\ UNCHANGED <<handlers, level, emitted, sink, response, op, latest, issued, pre, repeat,
                 raceArgs>>

\* handler = logging.StreamHandler(); handler.setFormatter(formatter);
\* root.addHandler(handler)
RaceAdd(t) ==
  /\ th[t].pc = "add"
  /\ handlers' = Append(handlers, setFormatter(StreamHandler, RaceFormatter))
  /\ Goto(t, "suppress", 1)
  /\ UNCHANGED <<level, emitted, sink, response, op, latest, issued, pre, repeat, raceArgs>>

\* for lib_name in libs: logging.getLogger(lib_name).setLevel(logging.WARNING)
RaceSuppress(t) ==
  LET libs == Libs(raceArgs[1].suppress_libs) IN
    /\ th[t].pc = "suppress"
    /\ IF th[t].i <= Len(libs)
       THEN /\ level' = setLevel(level, libs[th[t].i], WARNING)
            /\ Goto(t, "suppress", th[t].i + 1)
       ELSE /\ Goto(t, "summary", 0)
            /\ UNCHANGED level
    /\ UNCHANGED <<handlers, emitted, sink, response, op, latest, issued, pre, repeat, raceArgs>>

\* logger.info("Logging configured: ...") and return
RaceSummary(t) ==
  LET rec == SummaryRecord(raceArgs[1].logger_name, Libs(raceArgs[1].suppress_libs)) IN
    /\ th[t].pc = "summary"
    /\ emitted' = Append(emitted, rec)
    /\ sink' = sink \o LoggerLog(handlers, level, rec)
    /\ Goto(t, "done", 0)
    /\ UNCHANGED <<handlers, level, response, op, latest, issued, pre, repeat, raceArgs>>

InitRace ==
  /\ handlers \in {[i \in 1..k |-> HostHandler] : k \in 0..MaxHandlers}
  /\ level \in InitLevels
  /\ emitted = <<>>
  /\ sink = <<>>
  /\ response = NoResponse
  /\ op = [name |-> "start", args |-> <<>>]
  /\ latest = <<>>
  /\ issued = [n \in AppNames |-> <<>>]
  /\ pre = Before
  /\ repeat = FALSE
  /\ th = NoThreads
  /\ raceArgs \in {<<a>> : a \in SetupArgs}

NextRace ==
  \E t \in Threads :
    \/ RaceSetLevel(t)
    \/ RaceFormat(t)
    \/ RaceCheck(t)
    \/ RaceAdd(t)
    \/ RaceSuppress(t)
    \/ RaceSummary(t)

SpecRace == InitRace /\ [][NextRace]_vars

AllDone == \A t \in Threads : th[t].pc = "done"

----------------------------------------------------------------------------
(* Properties of setup_logging, checked under Spec.                        *)

AfterSetup == op.name = "setup_logging"

SetupArg == op.args[1]

BuiltFormatter == <<Formatter(ResolveFmt(SetupArg.fmt))>>

\* C1: calling setup_logging a second time with the same arguments leaves
\* the configuration the first call produced: the same number of root
\* destinations, each carrying exactly one formatter built from the same
\* template, and the same level on every logger (the named one and the
\* suppressed ones included).
C1_SetupIdempotent ==
  (AfterSetup /\ repeat) =>
    /\ Len(handlers) = pre.nhandlers
    /\ \A i \in DOMAIN handlers : handlers[i].formatter = BuiltFormatter
    /\ level = pre.level

\* C1 witness: the first call installed the default destination and the
\* second, identical call has returned.
C1_Witness ==
  /\ AfterSetup
  /\ repeat
  /\ pre.nhandlers = 1
  /\ Len(handlers) = 1
  /\ handlers[1].kind = "stream"

\* C3: after setup_logging returns, root has at least one destination and
\* every destination carries the formatter that call built; destinations
\* that existed were kept and none was added, and when none existed
\* exactly one stream destination with the formatter was attached.
C3_EveryDestinationFormatted ==
  AfterSetup =>
    /\ Len(handlers) >= 1
    /\ \A i \in DOMAIN handlers : handlers[i].formatter = BuiltFormatter
    /\ pre.nhandlers > 0 => Len(handlers) = pre.nhandlers
    /\ pre.nhandlers = 0 =>
         handlers = <<[kind |-> "stream", formatter |-> BuiltFormatter]>>

\* C3 witness: setup_logging with a custom template was called while root
\* had no destination, and the stream destination it attached carries it.
C3_Witness ==
  /\ AfterSetup
  /\ pre.nhandlers = 0
  /\ handlers = <<[kind |-> "stream", formatter |-> <<Formatter(CustomFmt)>>]>>

AppDefaultInForce ==
  /\ latest # <<>>
  /\ latest[1].logger_name = "app"
  /\ latest[1].fmt = DEFAULT_FMT
  /\ op.name \in {"logger_call", "http_get"}

\* C4 as claimed: after setup_logging("app") with the default template,
\* every record delivered afterwards, through the returned logger or
\* through the module-level logging calls, is rendered "[app] " + message.
C4_AllRenderedAsApp ==
  AppDefaultInForce =>
    \A k \in DOMAIN sink :
      sink[k].logger \in {"app", "root"} => sink[k].text = "[app] " \o sink[k].msg

\* C4 as amended: after setup_logging("app") with the default template,
\* every record delivered afterwards is rendered "[" + the name of the
\* logger that emitted it + "] " + message: "[app] " through the returned
\* logger, "[root] " through the module-level logging calls.
C4_RenderedWithEmitterName ==
  AppDefaultInForce =>
    \A k \in DOMAIN sink :
      /\ sink[k].text = "[" \o sink[k].logger \o "] " \o sink[k].msg
      /\ sink[k].logger = "app" => sink[k].text = "[app] " \o sink[k].msg
      /\ sink[k].logger = "root" => sink[k].text = "[root] " \o sink[k].msg

\* C4 witness: a module-level call of http_get was delivered after
\* setup_logging("app") and rendered with root's name.
C4_Witness ==
  /\ AppDefaultInForce
  /\ op.name = "http_get"
  /\ \E k \in DOMAIN sink :
       sink[k].text = "[root] WARNING: Example warning message for World"

SuppressedNames(a) ==
  IF a.suppress_libs = <<>>
  THEN { "azure.core.pipeline.policies.http_logging_policy", "azure.core.pipeline",
         "azure.identity", "azure.storage", "urllib3", "msrest" }
  ELSE Range(a.suppress_libs[1])

SummaryOf(a) == Record(a.logger_name, INFO, SummaryMsg(a.logger_name, Libs(a.suppress_libs)))

Received(h) == SelectSeq(sink, LAMBDA d : d.handler = h)

\* C5 as claimed: after setup_logging returns, exactly one summary record
\* bearing the logger's name and the number of suppressed sources has been
\* delivered to the sink by that call, whatever the level argument and the
\* destinations.  Stated for the calls that pass a named severity as level
\* and whose logger is not itself among the suppressed sources, so that a
\* failure does not rest on C6.
C5_OneSummaryDelivered ==
  (/\ AfterSetup
   /\ SetupArg.level # NOTSET
   /\ SetupArg.logger_name \notin SuppressedNames(SetupArg)) =>
    /\ Len(sink) = 1
    /\ sink[1].logger = SetupArg.logger_name
    /\ sink[1].msg = SummaryOf(SetupArg).msg

\* C5 as amended: setup_logging makes exactly one info-level logging call,
\* through the named logger, bearing its name and the number of suppressed
\* sources; every root destination receives that record exactly once when
\* the named logger's effective level after the call is at or below info,
\* and no destination receives anything otherwise (a level argument of
\* warning, for one).
C5_OneSummaryPerDestinationWhenEnabled ==
  AfterSetup =>
    /\ emitted = <<SummaryOf(SetupArg)>>
    /\ \A k \in DOMAIN sink :
         /\ sink[k].logger = SetupArg.logger_name
         /\ sink[k].levelno = INFO
         /\ sink[k].msg = SummaryOf(SetupArg).msg
    /\ \A h \in DOMAIN handlers :
         Len(Received(h)) =
           IF getEffectiveLevel(level, SetupArg.logger_name) <= INFO THEN 1 ELSE 0
    /\ SetupArg.level = WARNING => sink = <<>>

\* C5 witness: setup_logging returned with two root destinations and each
\* received the summary once.
C5_Witness ==
  /\ AfterSetup
  /\ Len(handlers) = 2
  /\ Len(sink) = 2
  /\ sink[1].handler = 1
  /\ sink[2].handler = 2
  /\ sink[2].text = "[app] Logging configured: logger='app', suppressed 6 libraries"

\* C6 as claimed: when setup_logging returns, the named logger's own level
\* equals the level argument, also when the logger's name is among the
\* suppressed sources.
C6_NamedLoggerHasMinLevel ==
  AfterSetup => level[SetupArg.logger_name] = SetupArg.level

\* C7: after setup_logging, every logger named in suppress_libs (the six
\* default names when it is None, none when it is the empty list) has level
\* WARNING whatever it was before, and every logger that is neither
\* suppressed nor the named one, root included, keeps its level.
C7_SuppressedWarnOthersKept ==
  AfterSetup =>
    /\ Cardinality(SuppressedNames([suppress_libs |-> <<>>])) = 6
    /\ \A n \in Loggers :
         /\ n \in SuppressedNames(SetupArg) => level[n] = WARNING
         /\ (n \notin SuppressedNames(SetupArg) /\ n # SetupArg.logger_name) =>
              level[n] = pre.level[n]

\* C7 witness: a default-list call for "app" found urllib3 at DEBUG and left
\* it at WARNING, with root's level untouched.
C7_Witness ==
  /\ AfterSetup
  /\ SetupArg.logger_name = "app"
  /\ SetupArg.suppress_libs = <<>>
  /\ pre.level["urllib3"] = DEBUG
  /\ level["urllib3"] = WARNING
  /\ level["msrest"] = WARNING
  /\ level["root"] = pre.level["root"]

----------------------------------------------------------------------------
(* Concurrent setup_logging, checked under SpecRace.                       *)

SingleCall == setup_logging([handlers |-> <<>>, level |-> pre.level], raceArgs[1])

\* C2 as claimed: when setup_logging calls with the same arguments race,
\* starting with no root destination, the final configuration is the one a
\* single call produces; in particular root ends with exactly one
\* destination.
C2_RaceEndsAsSingleCall ==
  (AllDone /\ pre.nhandlers = 0) =>
    /\ Len(handlers) = 1
    /\ handlers = SingleCall.handlers
    /\ level = SingleCall.level

----------------------------------------------------------------------------
(* Properties of the request handlers, checked under SpecApp.              *)

HandlerArg == op.args[1]

\* C8 as claimed: for every integer count, negative ones included,
\* sampling_test reports entriesGenerated = min(max(count, 0), 500).
C8_EntriesGeneratedClamped ==
  (op.name = "sampling_test" /\ PyInt(ParamGet(HandlerArg, "count", Str(50))).ok) =>
    /\ response.raised = ""
    /\ response.body.entriesGenerated =
         Min(Max(PyInt(ParamGet(HandlerArg, "count", Str(50))).val, 0), SamplingCap)

RequestedIterations == PyInt(ParamGet(HandlerArg, "iterations", Str(100))).val

RequestedFrequency == PyInt(ParamGet(HandlerArg, "logfrequency", Str(10))).val

\* C9 as claimed: for every integer iterations and logfrequency,
\* performance_test returns a response whose logsGenerated is
\* min(iterations, 10000) // max(logfrequency, 1), and it emits exactly
\* that many progress records (all its records but the first and last).
C9_LogsGeneratedMatchesProgress ==
  (/\ op.name = "performance_test"
   /\ PyInt(ParamGet(HandlerArg, "iterations", Str(100))).ok
   /\ PyInt(ParamGet(HandlerArg, "logfrequency", Str(10))).ok) =>
    /\ response.raised = ""
    /\ response.body.logsGenerated =
         Min(RequestedIterations, IterationCap) \div Max(RequestedFrequency, 1)
    /\ Len(emitted) - 2 = response.body.logsGenerated

SameIgnoringCase(a, b) ==
  /\ Len(a) = Len(b)
  /\ \A i \in DOMAIN a : a[i] = b[i] \/ LowerChar(a[i]) = LowerChar(b[i])

ExpectedLevel(params) ==
  LET t == IF params.loglevel = <<>> THEN InfoStr ELSE params.loglevel[1]
  IN CASE SameIgnoringCase(t, TraceStr) -> TRACE
       [] SameIgnoringCase(t, DebugStr) -> DEBUG
       [] SameIgnoringCase(t, InfoStr) -> INFO
       [] SameIgnoringCase(t, WarningStr) -> WARNING
       [] SameIgnoringCase(t, ErrorStr) -> ERROR
       [] OTHER -> INFO

\* C10: every http_get invocation returns normally after emitting exactly
\* four records in this order: debug, info, warning, then one at the
\* requested severity, matched ignoring case against trace, debug, info,
\* warning and error, with info for any other or missing value.
C10_FourRecordsInOrder ==
  op.name = "http_get" =>
    /\ response.raised = ""
    /\ response.status = 200
    /\ Len(emitted) = 4
    /\ emitted[1].levelno = DEBUG
    /\ emitted[2].levelno = INFO
    /\ emitted[3].levelno = WARNING
    /\ emitted[4].levelno = ExpectedLevel(HandlerArg)

\* C10 witness: a request with loglevel=Warning emitted its fourth record
\* at warning level.
C10_Witness ==
  /\ op.name = "http_get"
  /\ HandlerArg.loglevel = << <<"W", "a", "r", "n", "i", "n", "g">> >>
  /\ Len(emitted) = 4
  /\ emitted[4].levelno = WARNING
  /\ emitted[4].msg = "WARNING: Warning level log for World"

\* C11 as claimed: a sampling_test or performance_test request whose
\* numeric parameter is malformed is answered with status 400 and an error
\* payload; no exception leaves the handler.
C11_MalformedNumberAnswered400 ==
  /\ (op.name = "sampling_test"
      /\ ~PyInt(ParamGet(HandlerArg, "count", Str(50))).ok) =>
       (response.raised = "" /\ response.status = 400)
  /\ (op.name = "performance_test"
      /\ (\/ ~PyInt(ParamGet(HandlerArg, "iterations", Str(100))).ok
          \/ ~PyInt(ParamGet(HandlerArg, "logfrequency", Str(10))).ok)) =>
       (response.raised = "" /\ response.status = 400)

PostName == IF HandlerArg.name = <<>> THEN "Anonymous" ELSE HandlerArg.name[1]

PostCount == IF HandlerArg.generateLogs = <<>> THEN 1 ELSE HandlerArg.generateLogs[1].val

WellFormedPost ==
  /\ op.name = "http_post"
  /\ HandlerArg.kind = "object"
  /\ HandlerArg.generateLogs = <<>> \/ HandlerArg.generateLogs[1].int

\* C12: for a well-formed body with simulateError = true, http_post emits
\* its info records (the processing record and the log entries), then an
\* error-level record naming the user, and returns status 400 with body
\* {"error": "Simulated error for testing error tracking"}; it returns
\* neither the success payload nor 500.
C12_SimulatedErrorAnswered400 ==
  (WellFormedPost /\ HandlerArg.simulateError = <<TRUE>>) =>
    LET k == 2 + Max(0, Min(PostCount, 100)) IN
      /\ response.raised = ""
      /\ response.status = 400
      /\ response.body = [error |-> "Simulated error for testing error tracking"]
      /\ Len(emitted) >= k
      /\ emitted[1].msg = "Processing POST request for " \o PostName
      /\ \A j \in 1..(k - 1) : emitted[j].levelno = INFO
      /\ emitted[k].levelno = ERROR
      /\ emitted[k].msg = "Simulated error for testing - User: " \o PostName

\* C12 witness: a request for two log entries with simulateError = true was
\* answered 400 after the processing record, two entries and the error.
C12_Witness ==
  /\ WellFormedPost
  /\ HandlerArg.simulateError = <<TRUE>>
  /\ HandlerArg.generateLogs = <<IntValue(2)>>
  /\ response.status = 400
  /\ emitted[3].msg = "Log entry 2/2 for Anonymous"
  /\ emitted[4].levelno = ERROR

\* C13 as claimed: in a successful http_post request with an integer
\* generateLogs, the logsGenerated of the response is the number of
\* "Log entry" records the handler emitted (all its records but the
\* processing record).
C13_LogsGeneratedIsEntryCount ==
  (WellFormedPost /\ response.raised = "" /\ response.status = 200) =>
    response.body.logsGenerated = Len(emitted) - 1

----------------------------------------------------------------------------
(* Sequences of setup_logging calls, checked under Spec.                   *)

\* The text the latest template gives a record.
LatestText(rec) ==
  IF latest[1].fmt = << "[", "%(name)s", "] ", "%(message)s" >>
  THEN "[" \o rec.logger \o "] " \o rec.msg
  ELSE LevelName(rec.levelno) \o " " \o rec.msg

\* C14: over any sequence of setup_logging calls with arbitrary arguments,
\* the number of root destinations never decreases and grows only from
\* zero to one; after each call every root destination carries the
\* formatter of the most recent call, so a record logged through a logger
\* that an earlier call returned is rendered with the latest call's
\* template.
C14_CountMonotoneLatestTemplateWins ==
  /\ Len(handlers) >= pre.nhandlers
  /\ Len(handlers) > pre.nhandlers => (pre.nhandlers = 0 /\ Len(handlers) = 1)
  /\ latest # <<>> =>
       \A i \in DOMAIN handlers : handlers[i].formatter = <<Formatter(latest[1].fmt)>>
  /\ op.name = "logger_call" =>
       \A k \in DOMAIN sink : sink[k].text = LatestText(emitted[1])

\* C14 witness: "app" was returned by a call with the default template, a
\* later call for "urllib3" passed a custom template, and a record logged
\* through "app" came out in the custom template.
C14_Witness ==
  /\ op.name = "logger_call"
  /\ emitted[1].logger = "app"
  /\ issued["app"] = <<DEFAULT_FMT>>
  /\ latest[1].logger_name = "urllib3"
  /\ latest[1].fmt = CustomFmt
  /\ Len(sink) > 0
  /\ sink[1].text = "INFO Hello"

====
